---- MODULE Spec2Model ----
\* A model of the serverless worker: the bucket sync utility of
\* model_downloader.py (ModelDownloader, download_model_from_s3) and the
\* bootstrap and job callback of main.py (initialize_worker, handler).
EXTENDS Integers, Sequences, FiniteSets, TLC

\* ------------------------------------------------------------------ bounds

\* The number of distinct object keys the bucket may hold.
MaxKeys == 2
\* The largest object (and local file) size in bytes.
MaxSize == 2
\* The number of listing pages the provider may serve.
MaxPages == 2
\* The number of objects a conforming provider puts on one listing page.
PerPage == 1
\* The number of jobs the runtime delivers to the callback.
MaxJobs == 2

\* The paging loop of list_bucket_contents has no bound of its own; the model
\* stops issuing requests after this many.
MaxRequests == MaxPages + 2

\* ------------------------------------------------------- python primitives

\* Python's None, as a value distinct from every string the program handles.
None == "<None>"

\* An attribute that is not assigned yet.
Unset == "<unset>"

\* `not v` is false exactly for a non-empty string (None and "" are falsy).
Truthy(v) == v # None /\ v # ""

\* `not d.get(key)` negated, for a key that holds a boolean when present.
GetFlag(d, key) == key \in DOMAIN d /\ d[key]

\* dict.get(key): an absent key gives None.
Get(d, key) == IF key \in DOMAIN d THEN d[key] ELSE None

\* os.path.join(root, key) for a relative key.
Join(root, key) == root \o "/" \o key

\* ---------------------------------------------------------- configuration

\* What os.getenv may give for a credential variable: unset, empty or a value.
EnvValues == {None, "", "secret"}

\* self.model_path of ModelDownloader, and CONFIG of main.py.
model_path == "/model"
MODEL_PATH == "/model"
S3_BUCKET == "rd0cg4jfje"
S3_ENDPOINT == "https://s3api-eu-cz-1.runpod.io"
\* Where manifest_file lives.
MetadataPath == Join(model_path, "download_metadata.json")

\* ------------------------------------------------------------- the bucket

KeyOf(i) == "k" \o ToString(i)
Keys == {KeyOf(i) : i \in 1..MaxKeys}
KeyIndex(k) == CHOOSE i \in 1..MaxKeys : KeyOf(i) = k
Sizes == 0..MaxSize
RemoteObject == [Key : Keys, Size : Sizes]

\* The continuation token that addresses page i of the listing.
TokenOf(i) == "t" \o ToString(i)
\* The page a request asks for: the first one without a token.
PageIndex(token) == IF Truthy(token) THEN CHOOSE i \in 1..(MaxPages + 1) : TokenOf(i) = token ELSE 1

\* Strictly increasing sequences of objects: a listing names each key once, in
\* key order.
Increasing(s) == \A i \in 1..(Len(s) - 1) : KeyIndex(s[i].Key) < KeyIndex(s[i + 1].Key)
ObjectSeqs == {s \in UNION {[1..n -> RemoteObject] : n \in 0..MaxKeys} : Increasing(s)}

\* A record with no field: a response that lacks the optional keys.
NoField == [x \in {} |-> x]

\* The responses a provider may give for page i, its objects drawn from
\* `seqs`. Contents, IsTruncated and NextContinuationToken are each present or
\* absent; a token, when present, is empty or addresses the next page.
PageChoices(i, seqs) ==
    {c @@ t @@ n :
        c \in {NoField} \cup {[Contents |-> q] : q \in seqs},
        t \in {NoField} \cup {[IsTruncated |-> b] : b \in BOOLEAN},
        n \in {NoField} \cup {[NextContinuationToken |-> x] : x \in {"", TokenOf(i + 1)}}}

\* The objects of pages 1..n, in page order.
RECURSIVE ContentsUpTo(_, _)
ContentsUpTo(pp, n) ==
    IF n = 0 THEN <<>>
    ELSE ContentsUpTo(pp, n - 1) \o (IF "Contents" \in DOMAIN pp[n] THEN pp[n].Contents ELSE <<>>)

\* A listing of finitely many pages: it names each key once, in key order;
\* every page but the last is truncated (a page that is not ends the listing);
\* the last page cannot both be truncated and name a further page.
IsListing(pp) ==
    /\ Increasing(ContentsUpTo(pp, Len(pp)))
    /\ \A i \in 1..(Len(pp) - 1) : GetFlag(pp[i], "IsTruncated")
    /\ ~(GetFlag(pp[Len(pp)], "IsTruncated") /\ Truthy(Get(pp[Len(pp)], "NextContinuationToken")))

\* Sizes play no part in listing: every object of the listings below has the
\* size MaxSize.
ListedSeqs == {q \in ObjectSeqs : \A j \in 1..Len(q) : q[j].Size = MaxSize}

\* The sequences of n truncated pages that a listing may start with.
RECURSIVE TruncatedPages(_)
TruncatedPages(n) ==
    IF n = 0 THEN {<<>>}
    ELSE {pp \in {Append(qq, pg) : qq \in TruncatedPages(n - 1),
                                   pg \in {q \in PageChoices(n, ListedSeqs) : GetFlag(q, "IsTruncated")}} :
            Increasing(ContentsUpTo(pp, n))}

\* Every listing of at most MaxPages pages, whatever the provider puts in the
\* optional fields of each page.
AnyListings ==
    UNION {{pp \in {Append(qq, pg) : qq \in TruncatedPages(n - 1), pg \in PageChoices(n, ListedSeqs)} :
              IsListing(pp)} : n \in 1..MaxPages}

\* The listing a conforming provider serves for the objects `objs`: PerPage
\* objects a page, every page but the last truncated and naming the next, and
\* an empty bucket answered by one page without Contents.
NumPagesFor(objs) == IF Len(objs) = 0 THEN 1 ELSE (Len(objs) + PerPage - 1) \div PerPage
Paginate(objs) ==
    [i \in 1..NumPagesFor(objs) |->
        (IF Len(objs) = 0 THEN NoField
         ELSE [Contents |-> SubSeq(objs, (i - 1) * PerPage + 1,
                                   IF i * PerPage < Len(objs) THEN i * PerPage ELSE Len(objs))])
        @@ (IF i < NumPagesFor(objs)
            THEN [IsTruncated |-> TRUE, NextContinuationToken |-> TokenOf(i + 1)]
            ELSE [IsTruncated |-> FALSE])]

\* ------------------------------------------------------- local file system

Paths == {Join(model_path, k) : k \in Keys}
\* The local directory: the size of every file that exists under the root.
LocalDirs == UNION {[P -> Sizes] : P \in SUBSET Paths}
\* os.path.exists and os.path.getsize.
Exists(files, path) == path \in DOMAIN files
GetSize(files, path) == files[path]
\* A file created or overwritten with `size` bytes.
WriteFile(files, path, size) ==
    [q \in DOMAIN files \cup {path} |-> IF q = path THEN size ELSE files[q]]

\* ------------------------------------------------------------------ state

VARIABLES
    pages,               \* the bucket: the provider's answer to each page request
    fs,                  \* the local directory under model_path
    manifest_file,       \* download_metadata.json: <<>> or <<its content>>
    now,                 \* the clock time.time() reads
    s3,                  \* self.s3: Unset before __init__, then None or the client
    caller,              \* who called list_bucket_contents
    pc,                  \* the position of the running call
    objects,             \* list_bucket_contents: objects
    continuation_token,  \* list_bucket_contents: continuation_token
    requests,            \* the token of every listing request issued by this call
    failure,             \* the error the current listing call hit, or None
    list_ret,            \* what list_bucket_contents returned to a direct caller
    listed,              \* download_model: objects
    idx,                 \* download_model: the position of the for loop
    success_count,       \* download_model: success_count
    failed_count,        \* download_model: failed_count
    trace,               \* what the for loop did with each object, in order
    wrote,               \* whether this run wrote the manifest
    ret,                 \* the value the last call returned
    run,                 \* how many times download_model was called
    hist,                \* of every finished run: what it returned, the manifest it
                         \* wrote (<<>> when none), how often it called download_file
    phase,               \* main.py: "boot" or "serving"
    warned,              \* initialize_worker printed the credential warning
    descriptor,          \* what initialize_worker returned
    delivered,           \* the jobs the runtime delivered
    responses            \* what handler returned for each

listVars == <<objects, continuation_token, requests, failure, list_ret>>
syncVars == <<listed, idx, success_count, failed_count, trace, wrote>>
jobVars == <<phase, warned, descriptor, delivered, responses>>
vars == <<pages, fs, manifest_file, now, s3, caller, pc, listVars, syncVars, ret, run,
          hist, jobVars>>

\* -------------------------------------------------------- ModelDownloader

\* _create_s3_client: no client without both credentials.
CreateS3Client(access_key, secret_key) ==
    IF ~Truthy(access_key) \/ ~Truthy(secret_key) THEN None ELSE "client"

\* __init__ with the credentials os.getenv gives.
Construct ==
    /\ pc = "new"
    /\ \E access_key \in EnvValues, secret_key \in EnvValues :
          s3' = CreateS3Client(access_key, secret_key)
    /\ pc' = "constructed"
    /\ UNCHANGED <<pages, fs, manifest_file, now, caller, listVars, syncVars, ret, run,
                   hist, jobVars>>

\* __init__ when boto3.client raises: _create_s3_client re-raises.
ConstructRaises ==
    /\ pc = "new"
    /\ \E access_key \in EnvValues, secret_key \in EnvValues :
          CreateS3Client(access_key, secret_key) # None
    /\ pc' = "raised"
    /\ UNCHANGED <<pages, fs, manifest_file, now, s3, caller, listVars, syncVars, ret,
                   run, hist, jobVars>>

\* A direct call of list_bucket_contents.
CallList ==
    /\ pc = "constructed"
    /\ caller = "direct"
    /\ pc' = "list"
    /\ objects' = <<>>
    /\ continuation_token' = None
    /\ requests' = <<>>
    /\ failure' = None
    /\ list_ret' = <<>>
    /\ UNCHANGED <<pages, fs, manifest_file, now, s3, caller, syncVars, ret, run, hist,
                   jobVars>>

\* download_model up to its call of list_bucket_contents: the first call by
\* download_model_from_s3, and a second call in succession.
DownloadModel ==
    /\ caller = "download_model"
    /\ \/ pc = "constructed" /\ run = 0
       \/ pc = "returned" /\ run = 1
    /\ run' = run + 1
    /\ pc' = "list"
    /\ objects' = <<>>
    /\ continuation_token' = None
    /\ requests' = <<>>
    /\ failure' = None
    /\ listed' = <<>>
    /\ idx' = 0
    /\ success_count' = 0
    /\ failed_count' = 0
    /\ trace' = <<>>
    /\ wrote' = FALSE
    /\ ret' = <<>>
    /\ UNCHANGED <<pages, fs, manifest_file, now, s3, caller, list_ret, hist, jobVars>>

\* Extend with the slip `objects = response['Contents']`: a page replaces what
\* was accumulated.
ExtendReplace(objs, response) ==
    IF "Contents" \in DOMAIN response THEN response.Contents ELSE objs

\* objects.extend(response['Contents']) when the response has Contents.
Extend(objs, response) ==
    IF "Contents" \in DOMAIN response THEN objs \o response.Contents ELSE objs

\* response.get('IsTruncated') as the loop tests it.
Truncated(response) == GetFlag(response, "IsTruncated")

\* NextToken with the token of the response dropped.
NextTokenLost(response) == None

\* continuation_token = response.get('NextContinuationToken')
NextToken(response) == Get(response, "NextContinuationToken")

\* What list_bucket_contents returns from its except ClientError clause.
OnClientError(objs) == <<>>

\* OverallSuccess with the slip `failed_count >= 0`.
OverallSuccessAlways(failed) == failed >= 0

\* The overall result: failed_count == 0.
OverallSuccess(failed) == failed = 0

\* list_bucket_contents returns objs: to a direct caller, or to download_model,
\* which returns False on an empty listing and otherwise enters its for loop.
ListReturns(objs) ==
    IF caller = "direct"
    THEN /\ pc' = "list_returned"
         /\ list_ret' = objs
         /\ UNCHANGED <<syncVars, ret, hist>>
    ELSE /\ list_ret' = list_ret
         /\ IF Len(objs) = 0
            THEN /\ pc' = "returned"
                 /\ ret' = <<FALSE>>
                 /\ hist' = Append(hist, [ret |-> FALSE, manifest |-> <<>>, calls |-> 0])
                 /\ UNCHANGED syncVars
            ELSE /\ pc' = "for"
                 /\ listed' = objs
                 /\ idx' = 1
                 /\ success_count' = 0
                 /\ failed_count' = 0
                 /\ UNCHANGED <<trace, wrote, ret, hist>>

\* One iteration of the paging loop whose request succeeds: the provider
\* answers with the page the token addresses (the first page without a token).
ListPage ==
    /\ pc = "list"
    /\ s3 # None
    /\ Len(requests) < MaxRequests
    /\ PageIndex(continuation_token) <= Len(pages)
    /\ LET response == pages[PageIndex(continuation_token)]
           objs == Extend(objects, response)
       IN /\ requests' = Append(requests, continuation_token)
          /\ objects' = objs
          /\ IF ~Truncated(response)
             THEN /\ ListReturns(objs)
                  /\ UNCHANGED continuation_token
             ELSE /\ continuation_token' = NextToken(response)
                  /\ UNCHANGED <<pc, list_ret, syncVars, ret, hist>>
    /\ UNCHANGED <<pages, fs, manifest_file, now, s3, caller, failure, run, jobVars>>

\* A listing request raises ClientError: caught, the listing is empty.
ListClientError ==
    /\ pc = "list"
    /\ s3 # None
    /\ Len(requests) < MaxRequests
    /\ requests' = Append(requests, continuation_token)
    /\ failure' = "ClientError"
    /\ ListReturns(OnClientError(objects))
    /\ UNCHANGED <<pages, fs, manifest_file, now, s3, caller, objects, continuation_token,
                   run, jobVars>>

\* A listing request raises an error that is no ClientError (a connection
\* error, a timeout): no except clause matches, and it leaves download_model.
ListOtherError ==
    /\ pc = "list"
    /\ s3 # None
    /\ Len(requests) < MaxRequests
    /\ requests' = Append(requests, continuation_token)
    /\ failure' = "Exception"
    /\ pc' = "raised"
    /\ UNCHANGED <<pages, fs, manifest_file, now, s3, caller, objects, continuation_token,
                   list_ret, syncVars, ret, run, hist, jobVars>>

\* self.s3 is None: self.s3.list_objects_v2 raises AttributeError before any
\* request is made, and no except clause matches.
ListNoClient ==
    /\ pc = "list"
    /\ s3 = None
    /\ failure' = "AttributeError"
    /\ pc' = "raised"
    /\ UNCHANGED <<pages, fs, manifest_file, now, s3, caller, objects, continuation_token,
                   requests, list_ret, syncVars, ret, run, hist, jobVars>>

\* AlreadySynced without the size comparison.
AlreadySyncedExists(files, path, obj) == Exists(files, path)

\* The skip test of the for loop: the local file exists and has the listed size.
AlreadySynced(files, path, obj) ==
    Exists(files, path) /\ GetSize(files, path) = obj.Size

\* CountSkipped with the increment forgotten.
CountSkippedNot(count) == count

\* success_count += 1 for an object that is skipped.
CountSkipped(count) == count + 1

\* LoopNext with a break on the first failure.
LoopNextBreak(i, n, ok) == IF i = n \/ ~ok THEN "meta" ELSE "for"

\* Where the for loop stands after object i of n, whatever download_file
\* returned for it: the loop has no break.
LoopNext(i, n, ok) == IF i = n THEN "meta" ELSE "for"

\* What the loop records of one object: its key and listed size, the local
\* file's size before (<<>> when there was none), whether download_file was
\* called and how the object was counted.
Entry(obj, files, path, called, ok) ==
    [Key |-> obj.Key, Size |-> obj.Size,
     before |-> IF Exists(files, path) THEN <<GetSize(files, path)>> ELSE <<>>,
     called |-> called, ok |-> ok]

\* One iteration for an object that is already there: counted, not transferred.
ForSkip ==
    /\ pc = "for"
    /\ LET obj == listed[idx]
           local_file_path == Join(model_path, obj.Key)
       IN /\ AlreadySynced(fs, local_file_path, obj)
          /\ success_count' = CountSkipped(success_count)
          /\ trace' = Append(trace, Entry(obj, fs, local_file_path, FALSE, TRUE))
          /\ pc' = LoopNext(idx, Len(listed), TRUE)
    /\ idx' = idx + 1
    /\ UNCHANGED <<pages, fs, manifest_file, now, s3, caller, listVars, listed,
                   failed_count, wrote, ret, run, hist, jobVars>>

\* One iteration whose download_file returns True: the local file now holds
\* the object.
ForDownloadOk ==
    /\ pc = "for"
    /\ LET obj == listed[idx]
           local_file_path == Join(model_path, obj.Key)
       IN /\ ~AlreadySynced(fs, local_file_path, obj)
          /\ fs' = WriteFile(fs, local_file_path, obj.Size)
          /\ success_count' = success_count + 1
          /\ trace' = Append(trace, Entry(obj, fs, local_file_path, TRUE, TRUE))
          /\ pc' = LoopNext(idx, Len(listed), TRUE)
    /\ idx' = idx + 1
    /\ UNCHANGED <<pages, manifest_file, now, s3, caller, listVars, listed, failed_count,
                   wrote, ret, run, hist, jobVars>>

\* One iteration whose download_file returns False (head_object, makedirs or
\* the transfer raised): the local file is as it was, or holds a part of the
\* object.
ForDownloadFail ==
    /\ pc = "for"
    /\ LET obj == listed[idx]
           local_file_path == Join(model_path, obj.Key)
       IN /\ ~AlreadySynced(fs, local_file_path, obj)
          /\ \/ fs' = fs
             \/ \E part \in 0..(obj.Size - 1) : fs' = WriteFile(fs, local_file_path, part)
          /\ failed_count' = failed_count + 1
          /\ trace' = Append(trace, Entry(obj, fs, local_file_path, TRUE, FALSE))
          /\ pc' = LoopNext(idx, Len(listed), FALSE)
    /\ idx' = idx + 1
    /\ UNCHANGED <<pages, manifest_file, now, s3, caller, listVars, listed, success_count,
                   wrote, ret, run, hist, jobVars>>

\* Metadata with total_files taken from the success count.
MetadataCountsSucceeded(objs, succeeded, failed, time) ==
    [download_time |-> time,
     bucket_name |-> S3_BUCKET,
     endpoint_url |-> S3_ENDPOINT,
     total_files |-> succeeded,
     successful_downloads |-> succeeded,
     failed_downloads |-> failed]

\* The metadata dictionary download_model dumps.
Metadata(objs, succeeded, failed, time) ==
    [download_time |-> time,
     bucket_name |-> S3_BUCKET,
     endpoint_url |-> S3_ENDPOINT,
     total_files |-> Len(objs),
     successful_downloads |-> succeeded,
     failed_downloads |-> failed]

\* After the loop: the manifest is written and download_model returns.
WriteMetadata ==
    /\ pc = "meta"
    /\ now' = now + 1
    /\ manifest_file' = <<Metadata(listed, success_count, failed_count, now')>>
    /\ wrote' = TRUE
    /\ ret' = <<OverallSuccess(failed_count)>>
    /\ hist' = Append(hist, [ret |-> OverallSuccess(failed_count),
                             manifest |-> manifest_file',
                             calls |-> Cardinality({i \in 1..Len(trace) : trace[i].called})])
    /\ pc' = "returned"
    /\ UNCHANGED <<pages, fs, s3, caller, listVars, listed, idx, success_count,
                   failed_count, trace, run, jobVars>>

\* ------------------------------------------------------------------ main.py

\* The values f"{input_data}" is applied to, each with its Python type.
Inputs == {[type |-> "str", value |-> "x"], [type |-> "str", value |-> ""],
           [type |-> "int", value |-> 7], [type |-> "NoneType", value |-> None]}

\* The requests the runtime may deliver: mappings with and without "input",
\* and values that are no mapping.
Jobs ==
    {[type |-> "dict", value |-> [input |-> x]] : x \in Inputs}
    \cup {[type |-> "dict", value |-> [input |-> x, id |-> "j1"]] : x \in Inputs}
    \cup {[type |-> "dict", value |-> NoField],
          [type |-> "dict", value |-> [id |-> "j1"]],
          [type |-> "NoneType", value |-> None],
          [type |-> "list", value |-> <<"input">>],
          [type |-> "str", value |-> "input"],
          [type |-> "int", value |-> 7]}

\* str(x) as an f-string embeds it.
Format(x) ==
    CASE x.type = "str" -> x.value
      [] x.type = "int" -> ToString(x.value)
      [] x.type = "NoneType" -> "None"

\* str(e) of the exception job['input'] raises on a value that is no mapping
\* holding "input".
SubscriptError(job) ==
    CASE job.type = "dict" -> "'input'"
      [] job.type = "list" -> "list indices must be integers or slices, not str"
      [] job.type = "str" -> "string indices must be integers, not 'str'"
      [] OTHER -> "'" \o job.type \o "' object is not subscriptable"

\* Whether job['input'] evaluates.
HasInput(job) == job.type = "dict" /\ "input" \in DOMAIN job.value

\* Handler with job.get('input') in place of job['input']: a mapping without
\* "input" is answered as if its input were None.
HandlerGet(job) ==
    IF job.type = "dict"
    THEN [status |-> "success",
          model_used |-> MODEL_PATH,
          result |-> "Processed input: " \o
                     (IF "input" \in DOMAIN job.value THEN Format(job.value.input) ELSE "None")]
    ELSE [status |-> "error", message |-> SubscriptError(job)]

\* handler(job).
Handler(job) ==
    IF HasInput(job)
    THEN [status |-> "success",
          model_used |-> MODEL_PATH,
          result |-> "Processed input: " \o Format(job.value.input)]
    ELSE [status |-> "error", message |-> SubscriptError(job)]

\* initialize_worker: warns when a credential is missing, never fails, and
\* returns the readiness descriptor (the download is commented out).
InitializeWorker ==
    /\ phase = "boot"
    /\ \E access_key \in EnvValues, secret_key \in EnvValues :
          warned' = (~Truthy(access_key) \/ ~Truthy(secret_key))
    /\ descriptor' = <<[status |-> "ready", model_path |-> MODEL_PATH]>>
    /\ phase' = "serving"
    /\ UNCHANGED <<pages, fs, manifest_file, now, s3, caller, pc, listVars, syncVars, ret,
                   run, hist, delivered, responses>>

\* The runtime delivers one job and handler answers it.
HandleJob ==
    /\ phase = "serving"
    /\ Len(delivered) < MaxJobs
    /\ \E job \in Jobs :
          /\ delivered' = Append(delivered, job)
          /\ responses' = Append(responses, Handler(job))
    /\ UNCHANGED <<pages, fs, manifest_file, now, s3, caller, pc, listVars, syncVars, ret,
                   run, hist, phase, warned, descriptor>>

\* ---------------------------------------------------------- specifications

\* What every specification starts from, the bucket, the local directory and
\* the caller apart.
Start ==
    /\ manifest_file = <<>>
    /\ now = 0
    /\ s3 = Unset
    /\ pc = "new"
    /\ objects = <<>>
    /\ continuation_token = None
    /\ requests = <<>>
    /\ failure = None
    /\ list_ret = <<>>
    /\ listed = <<>>
    /\ idx = 0
    /\ success_count = 0
    /\ failed_count = 0
    /\ trace = <<>>
    /\ wrote = FALSE
    /\ ret = <<>>
    /\ run = 0
    /\ hist = <<>>
    /\ phase = "boot"
    /\ warned = FALSE
    /\ descriptor = <<>>
    /\ delivered = <<>>
    /\ responses = <<>>

\* download_model_from_s3, and download_model once more, against any bucket a
\* conforming provider serves and any local directory.
Init ==
    /\ pages \in {Paginate(objs) : objs \in ObjectSeqs}
    /\ fs \in LocalDirs
    /\ caller = "download_model"
    /\ Start

Next ==
    \/ Construct
    \/ ConstructRaises
    \/ DownloadModel
    \/ ListPage
    \/ ListClientError
    \/ ListOtherError
    \/ ListNoClient
    \/ ForSkip
    \/ ForDownloadOk
    \/ ForDownloadFail
    \/ WriteMetadata

Spec == Init /\ [][Next]_vars

\* list_bucket_contents called on its own, against any listing whatever the
\* provider puts in its pages.
ListInit ==
    /\ pages \in AnyListings
    /\ fs = NoField
    /\ caller = "direct"
    /\ Start

ListNext ==
    \/ Construct
    \/ ConstructRaises
    \/ CallList
    \/ ListPage
    \/ ListClientError
    \/ ListOtherError
    \/ ListNoClient

ListSpec == ListInit /\ [][ListNext]_vars

\* The process keeps running and every request is answered or fails: a call
\* that can take a step takes one.
FairListSpec == ListSpec /\ WF_vars(ListNext)

\* main.py: initialize_worker, then the jobs the runtime delivers.
JobInit ==
    /\ pages = Paginate(<<>>)
    /\ fs = NoField
    /\ caller = "download_model"
    /\ Start

JobNext ==
    \/ InitializeWorker
    \/ HandleJob

JobSpec == JobInit /\ [][JobNext]_vars

\* ------------------------------------------------------------------ claims

\* The trace entries of the current run that were counted as failed.
FailedEntries == {i \in 1..Len(trace) : ~trace[i].ok}
\* The manifest on disk.
Manifest == manifest_file[1]
\* Two manifests that agree in every field but download_time.
SameButTime(m1, m2) ==
    /\ m1.bucket_name = m2.bucket_name
    /\ m1.endpoint_url = m2.endpoint_url
    /\ m1.total_files = m2.total_files
    /\ m1.successful_downloads = m2.successful_downloads
    /\ m1.failed_downloads = m2.failed_downloads
\* This run wrote the manifest, and it says what the run did.
ManifestOfRun ==
    /\ wrote
    /\ Len(manifest_file) = 1
    /\ Manifest.download_time = now
    /\ Manifest.total_files = Len(listed)
    /\ Manifest.successful_downloads + Manifest.failed_downloads = Manifest.total_files

\* C1 as stated: whenever download_model returns, whatever the listing was,
\* the run has written the manifest, total_files is the number of listed
\* objects and successful_downloads + failed_downloads = total_files.
C1_Original == pc = "returned" => ManifestOfRun

\* C1 amended: whenever download_model returns after a non-empty listing,
\* whatever the transfers did, the run has written the manifest, total_files
\* is the number of listed objects and successful_downloads +
\* failed_downloads = total_files.
C1_ManifestWritten == (pc = "returned" /\ Len(listed) > 0) => ManifestOfRun

C1_Witness == pc = "returned" /\ Len(listed) > 1 /\ wrote /\ FailedEntries # {} /\ success_count > 0

\* C2 as stated: download_model returns True if and only if the run counted
\* no failure, an empty listing included.
C2_Original == pc = "returned" => (ret = <<TRUE>> <=> FailedEntries = {})

\* C2 amended: download_model returns True if and only if the listing was not
\* empty and the run counted no failure.
C2_SuccessIff == pc = "returned" => (ret = <<TRUE>> <=> (Len(listed) > 0 /\ FailedEntries = {}))

C2_Witness == pc = "returned" /\ ret = <<TRUE>> /\ Len(listed) > 0 /\ Len(trace) = Len(listed)

\* C3: with a credential missing when the client was made (self.s3 is None),
\* the sync does no listing and no transfer and no exception leaves
\* download_model_from_s3.
C3_SkippedNonFatal == s3 = None => (pc # "raised" /\ requests = <<>> /\ trace = <<>>)

\* C4: whatever error a listing request raises, list_bucket_contents raises
\* nothing and returns the empty sequence.
C4_EmptyOnAnyError ==
    failure \in {"ClientError", "Exception"} => (pc = "list_returned" /\ list_ret = <<>>)

\* What C5 expects for the input x of a request.
C5_Text(x) ==
    IF x.type = "str" THEN x.value
    ELSE IF x.type = "int" /\ x.value = 7 THEN "7"
    ELSE "None"

\* C5: handler returns one response for every request and raises nothing: a
\* request holding "input" = x gets status "success", the configured model
\* path and "Processed input: x"; a request without "input", or one that is no
\* mapping, gets status "error" and a non-empty message.
C5_OneResponsePerJob ==
    /\ Len(responses) = Len(delivered)
    /\ Len(delivered) > 0 => phase = "serving"
    /\ \A i \in 1..Len(responses) :
          IF delivered[i].type = "dict" /\ "input" \in DOMAIN delivered[i].value
          THEN responses[i] = [status |-> "success",
                               model_used |-> "/model",
                               result |-> "Processed input: " \o C5_Text(delivered[i].value.input)]
          ELSE /\ DOMAIN responses[i] = {"status", "message"}
               /\ responses[i].status = "error"
               /\ responses[i].message # ""

C5_Witness ==
    /\ Len(responses) = 2
    /\ responses[1].status = "error"
    /\ delivered[1].type = "dict"
    /\ responses[2].status = "success"
    /\ responses[2].result = "Processed input: x"

\* Both runs have finished and each wrote a manifest.
TwoManifests == Len(hist) = 2 /\ hist[1].manifest # <<>> /\ hist[2].manifest # <<>>

\* C6 as stated: the manifests of two runs in succession against an unchanged
\* bucket agree in every field but download_time, whatever the transfers of
\* the first run did.
C6_Original == TwoManifests => SameButTime(hist[1].manifest[1], hist[2].manifest[1])

\* C6 amended: the manifests of two runs in succession against an unchanged
\* bucket agree in bucket_name, endpoint_url and total_files, and in every
\* field but download_time when neither run counted a failed transfer.
C6_Idempotent ==
    TwoManifests =>
        LET m1 == hist[1].manifest[1]
            m2 == hist[2].manifest[1]
        IN /\ m1.bucket_name = m2.bucket_name
           /\ m1.endpoint_url = m2.endpoint_url
           /\ m1.total_files = m2.total_files
           /\ m1.download_time # m2.download_time
           /\ (m1.failed_downloads = 0 /\ m2.failed_downloads = 0) => SameButTime(m1, m2)

C6_Witness ==
    /\ TwoManifests
    /\ hist[1].manifest[1].failed_downloads = 0
    /\ hist[2].manifest[1].failed_downloads = 0
    /\ hist[1].calls > 0
    /\ hist[2].calls = 0

\* C7: download_file is called for a listed object if and only if no local
\* file of the listed size is at the joined path; an object that is not
\* transferred is counted as successful and its file is left alone, and a
\* transfer that succeeds leaves a local file of the listed size.
C7_TransferIffNotSynced ==
    /\ \A i \in 1..Len(trace) :
          /\ trace[i].called <=> ~(trace[i].before # <<>> /\ trace[i].before[1] = trace[i].Size)
          /\ ~trace[i].called => trace[i].ok
          /\ trace[i].ok =>
                /\ Join("/model", trace[i].Key) \in DOMAIN fs
                /\ fs[Join("/model", trace[i].Key)] = trace[i].Size
    /\ pc \in {"for", "meta", "returned"} =>
          success_count = Cardinality({i \in 1..Len(trace) : trace[i].ok})

C7_Witness ==
    /\ Len(trace) = 2
    /\ ~trace[1].called
    /\ trace[2].called
    /\ trace[2].before # <<>>
    /\ trace[2].ok

\* C8: a failed transfer is counted and does not stop the run: the objects
\* are processed one at a time in listing order, each once, all of them
\* before the manifest is written.
C8_FailureDoesNotHalt ==
    /\ pc \in {"for", "meta"} \/ (pc = "returned" /\ Len(listed) > 0) =>
          /\ Len(trace) = idx - 1
          /\ Len(trace) <= Len(listed)
          /\ \A i \in 1..Len(trace) : trace[i].Key = listed[i].Key
          /\ failed_count = Cardinality(FailedEntries)
          /\ success_count + failed_count = Len(trace)
    /\ pc = "for" => idx <= Len(listed)
    /\ (pc = "meta" \/ wrote) => Len(trace) = Len(listed)
    /\ wrote => pc = "returned"

C8_Witness ==
    /\ pc = "returned"
    /\ wrote
    /\ Len(trace) = 2
    /\ ~trace[1].ok
    /\ trace[2].called
    /\ trace[2].ok

\* The page that ends the listing: the first whose IsTruncated is false or
\* absent.
EndPage == CHOOSE n \in 1..Len(pages) :
              /\ ~GetFlag(pages[n], "IsTruncated")
              /\ \A i \in 1..(n - 1) : GetFlag(pages[i], "IsTruncated")

\* C9: when no listing request fails, what list_bucket_contents returns is the
\* Contents of the pages up to the one that ends the listing, in page order,
\* each page requested once: the first without a token, each later one with
\* the NextContinuationToken of the response before it.
C9_AllPagesInOrder ==
    (pc = "list_returned" /\ failure = None) =>
        /\ \E n \in 1..Len(pages) : ~GetFlag(pages[n], "IsTruncated")
        /\ list_ret = ContentsUpTo(pages, EndPage)
        /\ Len(requests) = EndPage
        /\ requests[1] = None
        /\ \A i \in 2..Len(requests) :
              /\ "NextContinuationToken" \in DOMAIN pages[i - 1]
              /\ requests[i] = pages[i - 1].NextContinuationToken

C9_Witness ==
    /\ pc = "list_returned"
    /\ failure = None
    /\ Len(pages) = 2
    /\ "Contents" \notin DOMAIN pages[2]
    /\ "IsTruncated" \notin DOMAIN pages[2]
    /\ Len(list_ret) = 1

\* Every truncated page names the next page.
Conforming ==
    \A i \in 1..Len(pages) :
        GetFlag(pages[i], "IsTruncated") => Truthy(Get(pages[i], "NextContinuationToken"))

\* C10 as stated: whatever a truncated response holds as its token,
\* list_bucket_contents issues the token-less request once only.
C10_Original == \A i \in 2..Len(requests) : Truthy(requests[i])

\* list_bucket_contents has returned or raised.
ListDone == pc \in {"list_returned", "raised"}

\* With conforming pages the token-less request is issued once only and no
\* page is asked for twice, so there is at most one request a page.
C10_OneRequestPerPage ==
    Conforming =>
        /\ \A i \in 2..Len(requests) : Truthy(requests[i])
        /\ \A i, j \in 1..Len(requests) : i # j => requests[i] # requests[j]
        /\ Len(requests) <= Len(pages)

\* C10 amended: list_bucket_contents terminates for every bucket with
\* finitely many pages whose truncated responses each carry a non-empty
\* NextContinuationToken: it then issues the token-less request once only,
\* asks for no page twice, and returns or raises.
C10_Terminates == [](C10_OneRequestPerPage) /\ (Conforming ~> ListDone)

C10_Witness ==
    /\ Conforming
    /\ pc = "list_returned"
    /\ failure = None
    /\ Len(requests) = 2
    /\ Len(pages) = 2

====
